---------------------------- MODULE Spec2Model ----------------------------
(***************************************************************************)
(* Model of streamlit_app.py, the credit-scoring dashboard.                *)
(*                                                                         *)
(* The script is re-executed from its first line to its last on every user *)
(* interaction (a "pass").  The state is (a) the environment: the CSV file *)
(* on disk, (b) the session's widget state, which survives from pass to    *)
(* pass, and (c) the script's own variables, which are fresh in each pass. *)
(* A pass is cut into the script's blocks, one action per block.           *)
(*                                                                         *)
(* Numbers.  age, anciennete and nb_incidents are integers.  revenu is a   *)
(* float column: a value is <<whole, half>>, standing for whole + half/2   *)
(* with half in {0, 1}.  A score is an integer number of hundredths.  A    *)
(* contribution is a float: a record [k, n, d] that is the rational n/d    *)
(* (k = "fin"), an infinity of sign n (k = "inf") or NaN (k = "nan").      *)
(* Optional values: None is <<>> and a present value x is <<x>>.           *)
(*                                                                         *)
(* Streamlit.  A slider's limits are widened to hold its default value; a  *)
(* slider returns the pair the user last set (its default before that).    *)
(* A selectbox returns the option the user chose among the same options,   *)
(* else its first option, and None when it has no option.  A button reads  *)
(* True only in the pass that its click started.  An exception that no     *)
(* handler catches ends the pass at once and is shown on the page; the     *)
(* widgets drawn before it stay usable.  The file is the same in every     *)
(* pass of a session.                                                      *)
(***************************************************************************)
EXTENDS Integers, Sequences, FiniteSets, TLC

None == <<>>
Some(x) == <<x>>

(* ---- bounds of the model ---------------------------------------------- *)
\* longest catalog (rows of data/clients.csv) drawn by InitCatalog
MaxCat == 2
\* longest "explanations" list drawn by the scoring responses of NextScoring
MaxExpl == 2

(* ---- small helpers ---------------------------------------------------- *)
Min2(a, b) == IF a <= b THEN a ELSE b
Max2(a, b) == IF a >= b THEN a ELSE b
SetMin(S) == CHOOSE x \in S : \A y \in S : x <= y
SetMax(S) == CHOOSE x \in S : \A y \in S : x >= y
Range(s) == {s[i] : i \in 1..Len(s)}
SeqsUpTo(S, n) == UNION {[1..k -> S] : k \in 0..n}

(* ---- floats ----------------------------------------------------------- *)
Fin(n) == [k |-> "fin", n |-> n, d |-> 1]
Inf(s) == [k |-> "inf", n |-> s, d |-> 1]
NaN == [k |-> "nan", n |-> 0, d |-> 1]
Sgn(n) == IF n < 0 THEN -1 ELSE IF n > 0 THEN 1 ELSE 0
IAbs(n) == IF n < 0 THEN -n ELSE n

\* abs(x) of a float
FAbs(x) == [x EXCEPT !.n = IAbs(x.n)]
\* x > y; every comparison with NaN is False
FGt(x, y) ==
    IF x.k = "nan" \/ y.k = "nan" THEN FALSE
    ELSE IF x.k = "inf" THEN x.n > 0 /\ ~(y.k = "inf" /\ y.n > 0)
    ELSE IF y.k = "inf" THEN y.n < 0
    ELSE x.n * y.d > y.n * x.d
\* x < 0
FNeg(x) == x.k # "nan" /\ x.n < 0
\* bool(x): only zero is falsy; NaN and the infinities are truthy
FTruthy(x) == ~(x.k = "fin" /\ x.n = 0)
\* x / y with a numpy float64 divisor: no exception, IEEE results
FDiv(x, y) ==
    IF x.k = "nan" \/ y.k = "nan" THEN NaN
    ELSE IF x.k = "inf"
         THEN IF y.k = "inf" THEN NaN
              ELSE Inf(IF y.n < 0 THEN -(x.n) ELSE x.n)
    ELSE IF y.k = "inf" THEN Fin(0)
    ELSE IF y.n = 0 THEN (IF x.n = 0 THEN NaN ELSE Inf(Sgn(x.n)))
    ELSE [k |-> "fin", n |-> x.n * y.d * Sgn(y.n), d |-> x.d * IAbs(y.n)]

(* ---- the catalog file ------------------------------------------------- *)
\* revenu as a float: <<whole, half>>
IntTrunc(r) == r[1]
RevGe(r, n) == r[1] >= n
RevLe(r, n) == r[1] < n \/ (r[1] = n /\ r[2] = 0)

AgeVals == {17, 40}
RevenuVals == {<<50000, 0>>, <<120000, 1>>}
IncidentVals == {1}
\* the rows a CSV file may hold (anciennete and score_credit play no part in
\* the filters; one value each)
CsvRows ==
    [age : AgeVals, revenu : RevenuVals, anciennete : {3},
     nb_incidents : IncidentVals, score_credit : {650}]
\* read_csv(...).reset_index().rename(columns={"index": "client_id"}):
\* the rows, each with its 0-based position as client_id
ReadCsv(rows) ==
    [i \in 1..Len(rows) |->
        [client_id |-> i - 1, age |-> rows[i].age, revenu |-> rows[i].revenu,
         anciennete |-> rows[i].anciennete,
         nb_incidents |-> rows[i].nb_incidents,
         score_credit |-> rows[i].score_credit]]

(* ---- sidebar: sliders and filter -------------------------------------- *)
AgeDefault == <<18, 70>>
IncomeDefault == <<1000, 100000>>
IncidentDefault == <<0, 10>>

\* st.slider(label, min_value, max_value, value=(a, b)): the slider's limits.
\* Streamlit widens the limits so that they hold the default value.
SliderLimits(lo, hi, default) ==
    <<Min2(default[1], Min2(lo, hi)), Max2(default[2], Max2(lo, hi))>>
AgeLimits(cl) ==
    SliderLimits(SetMin({c.age : c \in Range(cl)}),
                 SetMax({c.age : c \in Range(cl)}), AgeDefault)
IncomeLimits(cl) ==
    SliderLimits(SetMin({IntTrunc(c.revenu) : c \in Range(cl)}),
                 SetMax({IntTrunc(c.revenu) : c \in Range(cl)}), IncomeDefault)
IncidentLimits(cl) ==
    SliderLimits(SetMin({c.nb_incidents : c \in Range(cl)}),
                 SetMax({c.nb_incidents : c \in Range(cl)}), IncidentDefault)

\* variant of RowMask: the three ranges joined by OR
RowMaskOr(c, af, nf, cf) ==
    \/ (c.age >= af[1] /\ c.age <= af[2])
    \/ (RevGe(c.revenu, nf[1]) /\ RevLe(c.revenu, nf[2]))
    \/ (c.nb_incidents >= cf[1] /\ c.nb_incidents <= cf[2])
\* the boolean mask of one row
RowMask(c, af, nf, cf) ==
    /\ c.age >= af[1] /\ c.age <= af[2]
    /\ RevGe(c.revenu, nf[1]) /\ RevLe(c.revenu, nf[2])
    /\ c.nb_incidents >= cf[1] /\ c.nb_incidents <= cf[2]
\* clients[mask]: the rows whose mask is True, in the catalog's order
FilterClients(cl, af, nf, cf) ==
    LET Keep(c) == RowMask(c, af, nf, cf) IN SelectSeq(cl, Keep)

\* the positions a user is taken to drag a slider's handles to: its limits,
\* the default handles and the (truncated) values of the column
Stops(limits, default, col) ==
    {x \in {limits[1], limits[2], default[1], default[2]} \cup col :
        limits[1] <= x /\ x <= limits[2]}
Ranges(S) == {<<a, b>> : a \in S, b \in S} \ {r \in S \X S : r[1] > r[2]}

(* ---- the scoring service's answers ------------------------------------ *)
\* An explanation string such as "'age' contributes 0.42": the number of
\* quote characters in it, the text after the first quote (up to the second),
\* and its last whitespace-separated token.
\* Tokens: <<"num", n>> a decimal literal, <<"nan", 0>> "nan",
\* <<"inf", s>> "inf" / "-inf", <<"word", 0>> anything float() rejects.
Expl(q, name, tok) == [quotes |-> q, name |-> name, tok |-> tok]
Explanations ==
    { Expl(2, "age", <<"num", 42>>),
      Expl(2, "revenu", <<"num", -10>>),
      Expl(2, "anciennete", <<"num", 0>>),
      Expl(2, "nb_incidents", <<"nan", 0>>),
      Expl(2, "score_credit", <<"inf", 1>>),
      Expl(0, "age", <<"num", 30>>),
      Expl(2, "age", <<"word", 0>>) }
ScoreVals == {45, 85}
Failures ==
    {"ConnectionError", "Timeout", "HTTPError", "JSONDecodeError",
     "AttributeError"}
\* what requests.post / raise_for_status / r.json() / resp.get come to:
\* kind "ok" is a 2xx answer whose body is a JSON object with optional keys;
\* "ConnectionError" and "Timeout" are raised by post, "HTTPError" by
\* raise_for_status (non-2xx), "JSONDecodeError" by r.json(), and
\* "AttributeError" by resp.get when the JSON body is not an object.
Resp(kind, sc, ex) == [kind |-> kind, score |-> sc, explanations |-> ex]
FailureResponses == {Resp(e, None, None) : e \in Failures}
OkResponses(ExplLists) ==
    {Resp("ok", sc, ex) :
        sc \in {None} \cup {Some(v) : v \in ScoreVals},
        ex \in {None} \cup {Some(l) : l \in ExplLists}}
\* the answers drawn by NextScoring
WideResponses ==
    FailureResponses \cup OkResponses(SeqsUpTo(Explanations, MaxExpl))
\* the answers drawn by NextCatalog
NarrowResponses ==
    { Resp("Timeout", None, None),
      Resp("ok", None, None),
      Resp("ok", Some(85),
           Some(<<Expl(2, "age", <<"num", 42>>),
                  Expl(2, "revenu", <<"num", -10>>)>>)),
      Resp("ok", Some(45), Some(<<Expl(0, "age", <<"num", 30>>)>>)) }

\* variant of ExceptCatches: except requests.RequestException
ExceptRequestsOnly(e) == e \in {"ConnectionError", "Timeout", "HTTPError"}
\* except Exception as e: which exceptions of the try block are caught
ExceptCatches(e) == e \in Failures
\* variant of RespGetScore: resp.get("score", 0)
RespGetScoreZero(r) == IF r.score = None THEN Some(0) ELSE r.score
\* resp.get("score", None)
RespGetScore(r) == IF r.score = None THEN None ELSE r.score
\* resp.get("explanations", [])
RespGetExplanations(r) ==
    IF r.explanations = None THEN <<>> ELSE r.explanations[1]

\* f.split("'")[1]
SplitQuote1(f) ==
    IF f.quotes = 0 THEN <<"err", "IndexError">> ELSE <<"ok", f.name>>
\* float(f.split()[-1])
LastFloat(f) ==
    IF f.tok[1] = "num" THEN <<"ok", Fin(f.tok[2])>>
    ELSE IF f.tok[1] = "nan" THEN <<"ok", NaN>>
    ELSE IF f.tok[1] = "inf" THEN <<"ok", Inf(f.tok[2])>>
    ELSE <<"err", "ValueError">>
\* if score is not None and shap_factors:
ShapGate(sc, sf) == sc # None /\ sf # <<>>
\* Python's max() over the values in order: the first value, replaced by
\* each later value that compares greater
RECURSIVE PyMax(_)
PyMax(s) ==
    IF Len(s) = 1 THEN s[1]
    ELSE LET m == PyMax(SubSeq(s, 1, Len(s) - 1))
         IN IF FGt(s[Len(s)], m) THEN s[Len(s)] ELSE m
\* max(abs(np.array(contributions))) or 1
MaxVal(cs) ==
    LET m == PyMax([i \in 1..Len(cs) |-> FAbs(cs[i])])
    IN IF FTruthy(m) THEN m ELSE Fin(1)
\* "réduit le risque" if value < 0 else "augmente le risque"
Direction(v) == IF FNeg(v) THEN "reduit le risque" ELSE "augmente le risque"
\* the verdict under the gauge
Verdict(sc) ==
    IF sc >= 80 THEN <<"success", "Eligible">>
    ELSE IF sc >= 50 THEN <<"warning", "Potentiellement eligible">>
    ELSE <<"error", "Non eligible">>
\* variant of ButtonReturn: a button that reads True in every pass
ButtonAlways(c) == TRUE
\* st.button(...): True only in the pass its click started
ButtonReturn(c) == c

(* ---- state ------------------------------------------------------------ *)
VARIABLES
    \* environment: data/clients.csv
    fileStatus, csv,
    \* session: widget state
    wAge, wIncome, wIncident, wSelKey, wSel, clicked,
    \* the running pass: position, how it ended, the uncaught exception
    pc, status, exc,
    \* the script's variables
    clients, age_filter, income_filter, incident_filter, filtered_clients,
    selected_client_id, client, score, shap_factors, resp,
    features, contributions, max_val, contributions_norm, directions,
    \* what the pass put on the page and sent to the service
    shown_count, messages, rendered, requests

envVars == <<fileStatus, csv>>
sliderVars == <<wAge, wIncome, wIncident>>
selVars == <<wSelKey, wSel>>
sessVars == <<wAge, wIncome, wIncident, wSelKey, wSel, clicked>>
loadVars == <<clients>>
sideVars == <<age_filter, income_filter, incident_filter, filtered_clients,
              shown_count>>
pickVars == <<selected_client_id, client>>
apiVars == <<score, shap_factors, resp, requests>>
shapVars == <<features, contributions, max_val, contributions_norm,
              directions>>
vars == <<fileStatus, csv, wAge, wIncome, wIncident, wSelKey, wSel, clicked,
          pc, status, exc, clients, age_filter, income_filter,
          incident_filter, filtered_clients, selected_client_id, client,
          score, shap_factors, resp, features, contributions, max_val,
          contributions_norm, directions, shown_count, messages, rendered,
          requests>>

\* a fresh run of the script: no variable is bound, the page is empty
FreshPass ==
    /\ pc = "load" /\ status = "running" /\ exc = None
    /\ clients = <<>>
    /\ age_filter = <<>> /\ income_filter = <<>> /\ incident_filter = <<>>
    /\ filtered_clients = <<>> /\ shown_count = None
    /\ selected_client_id = None /\ client = None
    /\ score = None /\ shap_factors = <<>> /\ resp = None /\ requests = <<>>
    /\ features = <<>> /\ contributions = <<>> /\ max_val = None
    /\ contributions_norm = <<>> /\ directions = <<>>
    /\ messages = <<>> /\ rendered = {}

\* the catalog of the scoring specification: two clients inside the default
\* ranges
ScoringCsv ==
    << [age |-> 40, revenu |-> <<50000, 0>>, anciennete |-> 3,
        nb_incidents |-> 1, score_credit |-> 650],
       [age |-> 40, revenu |-> <<50000, 0>>, anciennete |-> 3,
        nb_incidents |-> 1, score_credit |-> 650] >>

InitSession ==
    /\ wAge = AgeDefault /\ wIncome = IncomeDefault
    /\ wIncident = IncidentDefault
    /\ wSelKey = None /\ wSel = None /\ clicked = FALSE
    /\ FreshPass
InitCatalog ==
    /\ fileStatus \in {"ok", "FileNotFoundError", "PermissionError"}
    /\ csv \in (IF fileStatus = "ok" THEN SeqsUpTo(CsvRows, MaxCat)
                ELSE {<<>>})
    /\ InitSession
InitScoring ==
    /\ fileStatus \in {"ok", "FileNotFoundError", "PermissionError"}
    /\ csv = (IF fileStatus = "ok" THEN ScoringCsv ELSE <<>>)
    /\ InitSession

(* ---- one pass of the script ------------------------------------------- *)
\* an exception no handler catches: the run ends where it is and the page
\* shows the exception
Uncaught(e) ==
    /\ status' = "crashed" /\ exc' = Some(e)
    /\ messages' = Append(messages, <<"exception", e>>)
    /\ pc' = pc

\* except FileNotFoundError:
LoadCatches(e) == e = "FileNotFoundError"

\* LOAD DATA
Load ==
    /\ pc = "load" /\ status = "running"
    /\ IF fileStatus = "ok"
       THEN /\ clients' = ReadCsv(csv)
            /\ pc' = "sidebar"
            /\ UNCHANGED <<status, exc, messages>>
       ELSE IF LoadCatches(fileStatus)
       THEN \* st.error(...); st.stop()
            /\ messages' = Append(messages, <<"error", "fichier introuvable">>)
            /\ status' = "stopped"
            /\ UNCHANGED <<pc, exc, clients>>
       ELSE Uncaught(fileStatus) /\ UNCHANGED clients
    /\ UNCHANGED <<envVars, sessVars, sideVars, pickVars, apiVars, shapVars,
                   rendered>>

\* SIDEBAR FILTERS
Sidebar ==
    /\ pc = "sidebar" /\ status = "running"
    /\ IF clients = <<>>
       THEN \* int(clients.age.min()) of an empty column: int(nan)
            /\ Uncaught("ValueError")
            /\ UNCHANGED <<sideVars, rendered>>
       ELSE /\ age_filter' = wAge
            /\ income_filter' = wIncome
            /\ incident_filter' = wIncident
            /\ filtered_clients' =
                   FilterClients(clients, wAge, wIncome, wIncident)
            /\ shown_count' = Some(Len(filtered_clients'))
            /\ rendered' = rendered \cup {"sliders", "count"}
            /\ pc' = "select"
            /\ UNCHANGED <<status, exc, messages>>
    /\ UNCHANGED <<envVars, sessVars, loadVars, pickVars, apiVars, shapVars>>

\* filtered_clients.client_id
ClientIds(view) == [i \in 1..Len(view) |-> view[i].client_id]
\* st.selectbox(label, options): the option chosen for these options, else
\* the first one; None when there is no option
SelectboxValue(options, key, chosen) ==
    IF options = <<>> THEN None
    ELSE IF key = Some(options) /\ chosen # None THEN chosen
    ELSE Some(options[1])
\* filtered_clients[filtered_clients.client_id == selected_client_id]
RowsWithId(view, id) ==
    LET Hit(c) == id # None /\ c.client_id = id[1] IN SelectSeq(view, Hit)

\* CLIENT SELECTION
Select ==
    /\ pc = "select" /\ status = "running"
    /\ LET options == ClientIds(filtered_clients)
           value == SelectboxValue(options, wSelKey, wSel)
           rows == RowsWithId(filtered_clients, value)
       IN /\ selected_client_id' = value
          /\ wSelKey' = Some(options)
          /\ wSel' = value
          /\ rendered' = rendered \cup {"selectbox"}
          /\ IF rows = <<>>
             THEN \* .iloc[0] of an empty frame
                  /\ Uncaught("IndexError")
                  /\ UNCHANGED client
             ELSE /\ client' = Some(rows[1])
                  /\ pc' = "api"
                  /\ UNCHANGED <<status, exc, messages>>
    /\ UNCHANGED <<envVars, sliderVars, clicked, loadVars, sideVars, apiVars,
                   shapVars>>

\* the request body
Payload(c) ==
    [age |-> c.age, revenu |-> c.revenu, anciennete |-> c.anciennete,
     nb_incidents |-> c.nb_incidents, score_credit |-> c.score_credit]

\* API CALL: R is the set of answers the service may give
APICall(R) ==
    /\ pc = "api" /\ status = "running"
    /\ rendered' = rendered \cup {"button"}
    /\ IF ButtonReturn(clicked)
       THEN \E r \in R :
              /\ requests' = Append(requests, Payload(client[1]))
              /\ resp' = Some(r)
              /\ IF r.kind = "ok"
                 THEN /\ score' = RespGetScore(r)
                      /\ shap_factors' = RespGetExplanations(r)
                      /\ pc' = "summary"
                      /\ UNCHANGED <<status, exc, messages>>
                 ELSE IF ExceptCatches(r.kind)
                 THEN /\ messages' = Append(messages, <<"error", "Erreur API">>)
                      /\ score' = None /\ shap_factors' = <<>>
                      /\ pc' = "summary"
                      /\ UNCHANGED <<status, exc>>
                 ELSE /\ Uncaught(r.kind)
                      /\ score' = None /\ shap_factors' = <<>>
       ELSE /\ score' = None /\ shap_factors' = <<>>
            /\ pc' = "summary"
            /\ UNCHANGED <<resp, requests, status, exc, messages>>
    /\ UNCHANGED <<envVars, sessVars, loadVars, sideVars, pickVars, shapVars>>

\* SCORE GAUGE and CLIENT INFO TABLE
Summary ==
    /\ pc = "summary" /\ status = "running"
    /\ IF score # None
       THEN /\ messages' = Append(messages, Verdict(score[1]))
            /\ rendered' = rendered \cup {"gauge", "info_table"}
       ELSE /\ messages' = Append(messages, <<"info", "Cliquez">>)
            /\ rendered' = rendered \cup {"info_table"}
    /\ pc' = "shap"
    /\ UNCHANGED <<envVars, sessVars, status, exc, loadVars, sideVars,
                   pickVars, apiVars, shapVars>>

\* SHAP FACTORS RADAR and the factor summary
ShapFactors ==
    /\ pc = "shap" /\ status = "running"
    /\ LET n == Len(shap_factors)
           names == [i \in 1..n |-> SplitQuote1(shap_factors[i])]
           vals == [i \in 1..n |-> LastFloat(shap_factors[i])]
       IN IF ~ShapGate(score, shap_factors)
          THEN /\ pc' = "table"
               /\ UNCHANGED <<shapVars, status, exc, messages, rendered>>
          ELSE IF \E i \in 1..n : names[i][1] = "err"
          THEN /\ Uncaught("IndexError")
               /\ UNCHANGED <<shapVars, rendered>>
          ELSE IF \E i \in 1..n : vals[i][1] = "err"
          THEN /\ Uncaught("ValueError")
               /\ features' = [i \in 1..n |-> names[i][2]]
               /\ UNCHANGED <<contributions, max_val, contributions_norm,
                              directions, rendered>>
          ELSE LET cs == [i \in 1..n |-> vals[i][2]] IN
               /\ features' = [i \in 1..n |-> names[i][2]]
               /\ contributions' = cs
               /\ max_val' = Some(MaxVal(cs))
               /\ contributions_norm' =
                      [i \in 1..n |-> FDiv(cs[i], MaxVal(cs))]
               /\ directions' = [i \in 1..n |-> Direction(cs[i])]
               /\ rendered' = rendered \cup {"radar", "factor_summary"}
               /\ pc' = "table"
               /\ UNCHANGED <<status, exc, messages>>
    /\ UNCHANGED <<envVars, sessVars, loadVars, sideVars, pickVars, apiVars>>

\* CLIENT TABLE VIEW, and the end of the script
TableView ==
    /\ pc = "table" /\ status = "running"
    /\ rendered' = rendered \cup {"table"}
    /\ pc' = "end" /\ status' = "done"
    /\ UNCHANGED <<envVars, sessVars, exc, loadVars, sideVars, pickVars,
                   apiVars, shapVars, messages>>

(* ---- the user, between passes ----------------------------------------- *)
Ended == status \in {"done", "stopped", "crashed"}
\* the script starts over with nothing bound and an empty page
StartPass ==
    /\ pc' = "load" /\ status' = "running" /\ exc' = None
    /\ clients' = <<>>
    /\ age_filter' = <<>> /\ income_filter' = <<>> /\ incident_filter' = <<>>
    /\ filtered_clients' = <<>> /\ shown_count' = None
    /\ selected_client_id' = None /\ client' = None
    /\ score' = None /\ shap_factors' = <<>> /\ resp' = None
    /\ requests' = <<>>
    /\ features' = <<>> /\ contributions' = <<>> /\ max_val' = None
    /\ contributions_norm' = <<>> /\ directions' = <<>>
    /\ messages' = <<>> /\ rendered' = {}
    /\ UNCHANGED envVars

AgeStops ==
    Stops(AgeLimits(clients), AgeDefault, {c.age : c \in Range(clients)})
IncomeStops ==
    Stops(IncomeLimits(clients), IncomeDefault,
          {IntTrunc(c.revenu) : c \in Range(clients)})
IncidentStops ==
    Stops(IncidentLimits(clients), IncidentDefault,
          {c.nb_incidents : c \in Range(clients)})

MoveAge ==
    /\ Ended /\ "sliders" \in rendered
    /\ \E r \in Ranges(AgeStops) : r # wAge /\ wAge' = r
    /\ clicked' = FALSE
    /\ StartPass /\ UNCHANGED <<wIncome, wIncident, selVars>>
MoveIncome ==
    /\ Ended /\ "sliders" \in rendered
    /\ \E r \in Ranges(IncomeStops) : r # wIncome /\ wIncome' = r
    /\ clicked' = FALSE
    /\ StartPass /\ UNCHANGED <<wAge, wIncident, selVars>>
MoveIncident ==
    /\ Ended /\ "sliders" \in rendered
    /\ \E r \in Ranges(IncidentStops) : r # wIncident /\ wIncident' = r
    /\ clicked' = FALSE
    /\ StartPass /\ UNCHANGED <<wAge, wIncome, selVars>>
SelectClient ==
    /\ Ended /\ "selectbox" \in rendered
    /\ \E id \in Range(ClientIds(filtered_clients)) :
          Some(id) # wSel /\ wSel' = Some(id)
    /\ clicked' = FALSE
    /\ StartPass /\ UNCHANGED <<sliderVars, wSelKey>>
PressButton ==
    /\ Ended /\ "button" \in rendered
    /\ clicked' = TRUE
    /\ StartPass /\ UNCHANGED <<sliderVars, selVars>>
\* the page's "Rerun": the script runs again with the widgets as they are
Rerun ==
    /\ Ended
    /\ clicked' = FALSE
    /\ StartPass /\ UNCHANGED <<sliderVars, selVars>>

Pass(R) ==
    \/ Load \/ Sidebar \/ Select \/ APICall(R) \/ Summary \/ ShapFactors
    \/ TableView
User ==
    \/ MoveAge \/ MoveIncome \/ MoveIncident \/ SelectClient \/ PressButton
    \/ Rerun

NextCatalog == Pass(NarrowResponses) \/ User
NextScoring == Pass(WideResponses) \/ User

\* every catalog of up to MaxCat rows, a few answers of the service
SpecCatalog == InitCatalog /\ [][NextCatalog]_vars
\* one catalog, every answer of the service with up to MaxExpl explanations
SpecScoring == InitScoring /\ [][NextScoring]_vars

(* ---- properties ------------------------------------------------------- *)
\* how far the running (or ended) pass has come
PastSidebar == pc \in {"select", "api", "summary", "shap", "table", "end"}
PastApi == pc \in {"summary", "shap", "table", "end"}
ApiError == <<"error", "Erreur API">>
Count(s, x) == Cardinality({i \in 1..Len(s) : s[i] = x})
\* revenu in half units, for a statement of the ranges that does not go
\* through the mask
Halves(r) == 2 * r[1] + r[2]
WithinAll(c) ==
    /\ age_filter[1] <= c.age /\ c.age <= age_filter[2]
    /\ 2 * income_filter[1] <= Halves(c.revenu)
    /\ Halves(c.revenu) <= 2 * income_filter[2]
    /\ incident_filter[1] <= c.nb_incidents
    /\ c.nb_incidents <= incident_filter[2]

\* C1: once the sidebar block has run, the filtered view is exactly the
\* catalog records that lie within all three inclusive ranges, in catalog
\* order and without repetition, and the displayed count is its length.
C1_FilterExact ==
    PastSidebar =>
        /\ age_filter[1] <= age_filter[2]
        /\ income_filter[1] <= income_filter[2]
        /\ incident_filter[1] <= incident_filter[2]
        /\ \A i \in 1..Len(filtered_clients) :
              /\ filtered_clients[i] \in Range(clients)
              /\ WithinAll(filtered_clients[i])
        /\ \A c \in Range(clients) :
              WithinAll(c) => c \in Range(filtered_clients)
        /\ \A i, j \in 1..Len(filtered_clients) :
              i < j => filtered_clients[i].client_id
                           < filtered_clients[j].client_id
        /\ shown_count = Some(Len(filtered_clients))
\* C1 witness: a view that keeps one record and drops another whose age is
\* within the age range (so the conjunction, not one range, decided)
C1_Witness ==
    /\ PastSidebar
    /\ Len(filtered_clients) > 0
    /\ \E c \in Range(clients) :
          /\ c \notin Range(filtered_clients)
          /\ age_filter[1] <= c.age /\ c.age <= age_filter[2]

\* C2: resolving the selected client fails with a defined outcome, not a
\* crash, exactly when the selected id is not in the view (also when the
\* view is empty), leaving the view intact; otherwise it yields the one
\* record of the view with that id.
C2_ResolveDefined ==
    "selectbox" \in rendered =>
        IF \/ selected_client_id = None
           \/ selected_client_id[1] \notin Range(ClientIds(filtered_clients))
        THEN /\ status # "crashed"
             /\ client = None
             /\ filtered_clients
                    = FilterClients(clients, wAge, wIncome, wIncident)
        ELSE /\ client # None
             /\ client[1].client_id = selected_client_id[1]
             /\ Count(ClientIds(filtered_clients), selected_client_id[1]) = 1

\* C3 as stated: after a press, a successful call (2xx with a JSON body)
\* leaves a score, a failed call leaves no score and an error message, and
\* no score after a press always comes with an error message.
C3_StateMachine ==
    (PastApi /\ clicked) =>
        /\ resp # None
        /\ (resp[1].kind \in {"ok", "AttributeError"} => score # None)
        /\ (resp[1].kind \notin {"ok", "AttributeError"} =>
                score = None /\ Count(messages, ApiError) = 1)
        /\ (score = None => Count(messages, ApiError) = 1)
\* C3 amended: after a press, a successful call whose JSON object carries
\* a score leaves that score and no API error; a successful call whose
\* object has no score leaves no score and no API error; a failed call
\* (also a JSON body that is not an object) leaves no score and one API
\* error message.
C3_StateMachineAmended ==
    (PastApi /\ clicked) =>
        /\ resp # None
        /\ (resp[1].kind = "ok" /\ resp[1].score # None =>
                score = resp[1].score /\ Count(messages, ApiError) = 0)
        /\ (resp[1].kind = "ok" /\ resp[1].score = None =>
                score = None /\ Count(messages, ApiError) = 0)
        /\ (resp[1].kind # "ok" =>
                score = None /\ Count(messages, ApiError) = 1)
\* C3 witness: a pass started by a press that ended with a score
C3_Witness ==
    /\ status = "done" /\ clicked
    /\ resp # None /\ resp[1].kind = "ok"
    /\ score # None /\ "gauge" \in rendered

\* C4: a failed scoring call is caught where it is made: one API error
\* message, no score and no factor, exactly one request, the view and the
\* selected client as they were, and a pass that runs to its end.
C4_FailureCaught ==
    (clicked /\ resp # None /\ resp[1].kind # "ok") =>
        /\ status # "crashed" /\ PastApi
        /\ Count(messages, ApiError) = 1
        /\ score = None /\ shap_factors = <<>>
        /\ features = <<>> /\ contributions = <<>>
        /\ Len(requests) = 1
        /\ shown_count = Some(Len(filtered_clients))
        /\ client # None /\ selected_client_id = Some(client[1].client_id)
        /\ wSel = selected_client_id
        /\ client[1] \in Range(filtered_clients)
        /\ (Ended => status = "done" /\ {"info_table", "table"} \subseteq rendered)
\* C4 witness: a pass whose call timed out and that ran to its end
C4_Witness ==
    /\ status = "done" /\ clicked
    /\ resp # None /\ resp[1].kind = "Timeout"
    /\ "table" \in rendered

\* an explanation string the parse rejects
Malformed(f) == SplitQuote1(f)[1] = "err" \/ LastFloat(f)[1] = "err"
WellFormedIdx(sf) == {i \in 1..Len(sf) : ~Malformed(sf[i])}

\* C5: a malformed explanation string fails alone: the pass does not
\* crash, the score is shown, and the well-formed entries of the same
\* response are interpreted.
C5_MalformedEntryOnly ==
    (Ended /\ PastApi /\ score # None
       /\ \E i \in 1..Len(shap_factors) : Malformed(shap_factors[i])) =>
        /\ status = "done"
        /\ "gauge" \in rendered
        /\ Len(features) = Cardinality(WellFormedIdx(shap_factors))
        /\ \A i \in WellFormedIdx(shap_factors) :
              shap_factors[i].name \in Range(features)

\* C6: a catalog file that cannot be read ends the pass at the load with
\* exactly one error message and nothing else done.
C6_LoadFailureHalts ==
    (fileStatus # "ok" /\ status # "running") =>
        /\ status = "stopped"
        /\ Len(messages) = 1 /\ messages[1][1] = "error"
        /\ rendered = {} /\ requests = <<>>
        /\ filtered_clients = <<>> /\ client = None

\* C7: a request is sent only in a pass started by a press of the button,
\* at most one per pass and for the selected client; without a press there
\* is no score, no factor and no response in the pass; with a press the
\* score and the explanations are those of this pass's response.
C7_TriggerBound ==
    /\ Len(requests) <= 1
    /\ (requests # <<>> =>
            clicked /\ client # None /\ requests[1] = Payload(client[1]))
    /\ (~clicked =>
            /\ score = None /\ shap_factors = <<>> /\ resp = None
            /\ requests = <<>> /\ features = <<>> /\ contributions = <<>>
            /\ "gauge" \notin rendered /\ "radar" \notin rendered)
    /\ ((clicked /\ PastApi) =>
            /\ Len(requests) = 1 /\ resp # None
            /\ (resp[1].kind = "ok" =>
                    /\ score = resp[1].score
                    /\ shap_factors = RespGetExplanations(resp[1])))
\* C7 witness: a pass without a press, started by the user's choice of
\* another client, has run to its end with no score and no request
C7_Witness ==
    /\ status = "done" /\ ~clicked
    /\ wSel = Some(1)
    /\ score = None /\ requests = <<>>

\* C8: a pass that ran to its end holds one (name, contribution) factor per
\* explanation string of the response, in the response's order, whether or
\* not the response has a score (stated for responses whose explanation
\* strings are all well-formed); the empty response gives no score and no
\* factor without an exception.
C8_FactorPerExplanation ==
    /\ (/\ status = "done" /\ clicked /\ resp # None /\ resp[1].kind = "ok"
        /\ \A f \in Range(RespGetExplanations(resp[1])) : ~Malformed(f)) =>
          LET ex == RespGetExplanations(resp[1]) IN
          /\ Len(features) = Len(ex) /\ Len(contributions) = Len(ex)
          /\ \A i \in 1..Len(ex) :
                /\ features[i] = ex[i].name
                /\ contributions[i] = LastFloat(ex[i])[2]
          /\ (resp[1].score = None => score = None)
    /\ (Ended /\ clicked /\ resp = Some(Resp("ok", None, None))) =>
          status = "done" /\ score = None /\ features = <<>>

\* the body of C9, for the contributions cs, the divisor m, the normalised
\* values ns and the directions ds
IsZero(x) == x.k = "fin" /\ x.n = 0
NormalisedWell(cs, m, ns, ds) ==
    /\ cs # <<>> /\ Len(ns) = Len(cs) /\ Len(ds) = Len(cs)
    /\ ~IsZero(m)
    /\ ((\A i \in 1..Len(cs) : IsZero(cs[i])) => m = Fin(1))
    /\ ((\E i \in 1..Len(cs) : ~IsZero(cs[i])) =>
            /\ \E i \in 1..Len(cs) :
                  /\ m = FAbs(cs[i])
                  /\ ns[i].k = "fin" /\ IAbs(ns[i].n) = ns[i].d
            /\ \A i \in 1..Len(cs) : ~FGt(FAbs(cs[i]), m))
    /\ \A i \in 1..Len(cs) :
          /\ ns[i].k = "fin" /\ ns[i].d > 0 /\ IAbs(ns[i].n) <= ns[i].d
          /\ Sgn(ns[i].n) = Sgn(cs[i].n)
          /\ ds[i] = (IF cs[i].n < 0 THEN "reduit le risque"
                      ELSE "augmente le risque")

\* C9 as stated: whenever the contributions were normalised, the divisor is
\* the largest absolute contribution (1 when all are zero) and not zero,
\* every magnitude is within [0, 1], a largest entry has magnitude 1 when
\* some contribution is not zero, and the direction follows the sign.
C9_Normalisation ==
    max_val # None =>
        NormalisedWell(contributions, max_val[1], contributions_norm,
                       directions)
\* C9 for finite contributions only (no "nan" or "inf" token): this
\* restriction of the statement holds.
C9_NormalisationFinite ==
    (max_val # None /\ \A i \in 1..Len(contributions) :
                           contributions[i].k = "fin") =>
        NormalisedWell(contributions, max_val[1], contributions_norm,
                       directions)
\* C9 finite case reached: finite contributions with a negative one that is
\* not the largest in magnitude
C9_FiniteReached ==
    /\ max_val # None
    /\ \A i \in 1..Len(contributions) : contributions[i].k = "fin"
    /\ \E i \in 1..Len(contributions) :
          /\ contributions[i].n < 0
          /\ FAbs(contributions[i]) # max_val[1]
          /\ directions[i] = "reduit le risque"

\* C10: with the three ranges at the limits of their sliders, the view is
\* the whole catalog.
C10_WidestCoversCatalog ==
    (/\ PastSidebar
     /\ age_filter = AgeLimits(clients)
     /\ income_filter = IncomeLimits(clients)
     /\ incident_filter = IncidentLimits(clients)) =>
        filtered_clients = clients

=============================================================================
